---- MODULE Spec2Model ----
(***************************************************************************)
(* The agent turn loop of langchain-skills-test: the StateGraph built in   *)
(* src/index-with-graph.ts, src/index-with-skills.ts and                   *)
(* src/index-with-claude-tools.ts (nodes "agent" and "tools", the          *)
(* conditional edge shouldContinue, the MemorySaver checkpointer keyed by  *)
(* thread_id) together with the tool handlers the three programs          *)
(* register, the skill loader loadSkillsMetadata with the rendering of the *)
(* skills prompt, and callModel, the agent node that takes its model from  *)
(* config.                                                                 *)
(*                                                                         *)
(* Texts are sequences of pieces: a template literal `a${x}b` is the       *)
(* sequence <<"a", x, "b">>, so that "the text contains x" can be asked.   *)
(* The chat model and the operating system are the environment: the model  *)
(* answers with any AIMessage over a small vocabulary, a handler's system  *)
(* call succeeds or fails with any of a few error objects.                 *)
(***************************************************************************)
EXTENDS Integers, Sequences, FiniteSets, TLC

\* ------------------------------------------------------------------ bounds
\* the thread_ids callers use; the model explores at most MaxTurns calls of
\* app.invoke, MaxInvocations answers of the chat model and MaxIds tool calls
\* in all, with at most MaxCalls tool calls in one answer
Threads == {"t1", "t2"}
MaxTurns == 2
MaxCalls == 2
MaxIds == 2
MaxInvocations == 3

\* the loader is explored over listings of at most MaxEntries entries
MaxEntries == 3

\* the prompt is rendered from at most MaxSkills skills
MaxSkills == 2

\* ------------------------------------------------------- the three programs
Variants == {"graph", "skills", "claude"}

\* the tools handed to `new ToolNode([...])` by each program
Registry(v) ==
  CASE v = "graph"  -> {"arxiv_search"}
    [] v = "skills" -> {"read_file", "execute", "fetch_url"}
    [] v = "claude" -> {"read_file", "write_file", "edit_file", "glob_files",
                        "grep_search", "bash_command", "web_fetch"}

\* the programs whose agent node builds a skills prompt
HasSkillsPrompt(v) == v \in {"skills", "claude"}

\* the tool names the chat model asks for when the turn loop is explored: one
\* registered tool of the program and one that no program registers
ModelToolNames(v) ==
  CASE v = "graph"  -> {"arxiv_search", "unknown_tool"}
    [] v = "skills" -> {"execute", "unknown_tool"}
    [] v = "claude" -> {"bash_command", "unknown_tool"}

\* the tool names asked for when one tools step is explored: every registered
\* tool whose handler is modelled, and the unregistered one
StepToolNames(v) ==
  CASE v = "graph"  -> {"arxiv_search", "unknown_tool"}
    [] v = "skills" -> {"read_file", "execute", "unknown_tool"}
    [] v = "claude" -> {"bash_command", "grep_search", "unknown_tool"}

\* ---------------------------------------------------------------- messages
NoId == 0

Message(type, content, calls, has, tcid, name) ==
  [type |-> type, content |-> content, tool_calls |-> calls,
   has_tool_calls |-> has, tool_call_id |-> tcid, name |-> name]

NoMsg == Message("none", <<>>, <<>>, FALSE, NoId, "")

HumanMessage(content) == Message("human", content, <<>>, FALSE, NoId, "")

SystemMessage(content) == Message("system", content, <<>>, FALSE, NoId, "")

\* has = FALSE is an AIMessage whose tool_calls property is undefined
AIMessage(calls, has) == Message("ai", <<"answer">>, calls, has, NoId, "")

ToolMessage(content, name, tcid) == Message("tool", content, <<>>, FALSE, tcid, name)

ToolCall(id, name) == [id |-> id, name |-> name]

Last(s) == s[Len(s)]

RECURSIVE SumOver(_, _)
SumOver(f, S) ==
  IF S = {} THEN 0
  ELSE LET x == CHOOSE y \in S : TRUE IN f[x] + SumOver(f, S \ {x})

Total(f) == SumOver(f, DOMAIN f)

\* ------------------------------------------------- the environment's answers
\* what a system call made by a handler comes back with: a result, or an error
\* object with the fields child_process.execSync sets
OkResult(out) == [kind |-> "ok", out |-> out, status |-> "0", message |-> "",
                  stdout |-> "", stderr |-> ""]

ErrResult(status, message, stdout, stderr) ==
  [kind |-> "err", out |-> "", status |-> status, message |-> message,
   stdout |-> stdout, stderr |-> stderr]

EnvResults ==
  { OkResult("output"), OkResult(""),
    ErrResult("2", "Command failed", "partial out", "fatal: bad"),
    ErrResult("1", "Command failed", "", ""),
    ErrResult("null", "ETIMEDOUT", "", "") }

\* the two answers the turn loop is explored with
LoopResults ==
  { OkResult("output"),
    ErrResult("2", "Command failed", "partial out", "fatal: bad") }

\* x || d for strings
OrElse(x, d) == IF x = "" THEN d ELSE x

\* ------------------------------------------------------------ tool handlers
\* Each handler returns [threw, text]: threw means the promise rejected with
\* an Error whose message is text.
Returned(text) == [threw |-> FALSE, text |-> text]

Threw(text) == [threw |-> TRUE, text |-> text]

\* index-with-graph.ts: func: async (...) => await queryArxiv(...), no try
arxivSearchTool(r) ==
  IF r.kind = "ok" THEN Returned(<<r.out>>) ELSE Threw(<<r.message>>)

\* index-with-skills.ts read_file
readFileTool(r) ==
  IF r.kind = "ok" THEN Returned(<<r.out>>)
  ELSE Returned(<<"Error reading file: ", r.message>>)

\* index-with-skills.ts execute
executeCommandTool(r) ==
  IF r.kind = "ok" THEN Returned(<<r.out>>)
  ELSE Returned(<<"Error executing command: ", r.message, "\nStderr: ",
                  OrElse(r.stderr, "N/A")>>)

\* index-with-claude-tools.ts grep_search
grepTool(r) ==
  IF r.kind = "ok" THEN Returned(<<OrElse(r.out, "No matches")>>)
  ELSE IF r.status = "1" THEN Returned(<<"No matches">>)
  ELSE Returned(<<"Error: ", r.message>>)

\* error.status || 'unknown'
ExitCode(r) == IF r.status = "null" THEN "unknown" ELSE r.status

\* a bash_command that reports stderr only
bashToolStderrOnly(r) ==
  IF r.kind = "ok"
  THEN Returned(<<OrElse(r.out, "Command completed successfully (no output)")>>)
  ELSE Returned(<<"Error (exit code ", ExitCode(r), "):\nSTDERR: ", r.stderr>>)

\* index-with-claude-tools.ts bash_command
bashTool(r) ==
  IF r.kind = "ok"
  THEN Returned(<<OrElse(r.out, "Command completed successfully (no output)")>>)
  ELSE Returned(<<"Error (exit code ", ExitCode(r), "):\nSTDERR: ", r.stderr,
                  "\nSTDOUT: ", r.stdout>>)

ToolFunc(v, name, r) ==
  CASE name = "arxiv_search" -> arxivSearchTool(r)
    [] name = "read_file" /\ v = "skills" -> readFileTool(r)
    [] name = "execute"      -> executeCommandTool(r)
    [] name = "grep_search"  -> grepTool(r)
    [] name = "bash_command" -> bashTool(r)

\* ------------------------------------------------------------------- state
VARIABLES
  variant,      \* which of the three programs is running
  transcript,   \* thread_id -> state.messages as the checkpointer holds it
  pc,           \* thread_id -> "idle" | "agent" | "tools" | "done", or how
                \* app.invoke rejected: "failed" (the tools node threw),
                \* "model_failed" (the chat model), "config_failed" (callModel)
  turn,         \* thread_id -> number of app.invoke calls made on it
  route,        \* thread_id -> what shouldContinue returned last ("none" before)
  outputs,      \* thread_id -> the ToolMessages of the running tools node, by call
  finished,     \* thread_id -> the calls of the last tools node, in completion order
  nextId,       \* the next tool-call id the chat model hands out
  modelInput,   \* thread_id -> the messages of the latest model invocation
  invocations,  \* thread_id -> number of model invocations so far
  injectedAt,   \* thread_id -> the invocations that were given the skills prompt
  execLog,      \* the handler runs: [thread, id, name, result]
  lastResponse, \* thread_id -> the content main() printed last
  config,       \* thread_id -> configurable of its latest app.invoke
  skillDirs,    \* what backend.lsInfo(skillsPath) returned, in its order
  dirIndex,     \* the number of entries of skillDirs the loader's loop has done
  skills,       \* the descriptors loadSkillsMetadata has pushed so far
  warned,       \* the paths console.warn was called with, in order
  loaderPc,     \* "loop" while loadSkillsMetadata runs, "returned" after it
  toolCall,     \* the arguments a tool handler is called with, by itself
  file,         \* the file that call names: does it exist, and its content
  httpResponse, \* what fetch(url) resolves to for that call
  toolOutput    \* has the handler run, and the text it returned

loaderVars == <<skillDirs, dirIndex, skills, warned, loaderPc>>

toolVars == <<toolCall, file, httpResponse, toolOutput>>

vars == <<variant, transcript, pc, turn, route, outputs, finished, nextId,
          modelInput, invocations, injectedAt, execLog, lastResponse, config,
          skillDirs, dirIndex, skills, warned, loaderPc,
          toolCall, file, httpResponse, toolOutput>>

\* an optional argument: <<>> when the call leaves it out, <<x>> when given
Omitted == <<>>

Given(x) == <<x>>

File(exists, content) == [exists |-> exists, content |-> content]

Response(ok, status, text) == [ok |-> ok, status |-> status, text |-> text]

NotRun == [ran |-> FALSE, text |-> <<>>]

Ran(text) == [ran |-> TRUE, text |-> text]

\* no tool handler is called by itself
ToolsIdle ==
  /\ toolCall = [name |-> "none"]
  /\ file = File(FALSE, <<>>)
  /\ httpResponse = Response(FALSE, "none", <<>>)
  /\ toolOutput = NotRun

\* ------------------------------------------------------------- skill files
\* A text is a sequence of pieces. In a SKILL.md the pieces the loader's
\* regular expressions look for are kept apart ("\n", " ", "---", "name:",
\* "description:"); every other piece is a run of characters that holds none
\* of them. readRaw returns the file as its lines.
Space == {" ", "\n"}

Min(S) == CHOOSE x \in S : \A y \in S : x <= y

Max(S) == CHOOSE x \in S : \A y \in S : x >= y

\* Array.prototype.join
RECURSIVE join(_, _)
join(parts, sep) ==
  IF Len(parts) = 0 THEN <<>>
  ELSE IF Len(parts) = 1 THEN parts[1]
  ELSE parts[1] \o sep \o join(Tail(parts), sep)

\* a trim that leaves the text as it is
trimNothing(s) == s

\* String.prototype.trim
trim(s) ==
  LET kept == {i \in 1..Len(s) : s[i] \notin Space}
  IN  IF kept = {} THEN <<>> ELSE SubSeq(s, Min(kept), Max(kept))

\* content.match(/^---\n([\s\S]+?)\n---/): the positions of a "\n" at which
\* the lazy group can end; the match takes the first
FrontmatterEnds(content) ==
  IF Len(content) >= 2 /\ content[1] = "---" /\ content[2] = "\n"
  THEN {j \in 4..(Len(content) - 1) : content[j] = "\n" /\ content[j + 1] = "---"}
  ELSE {}

frontmatterMatch(content) == FrontmatterEnds(content) # {}

\* frontmatterMatch[1]
frontmatter(content) == SubSeq(content, 3, Min(FrontmatterEnds(content)) - 1)

\* frontmatter.match(/name:\s*(.+)/) and /description:\s*(.+)/ at an
\* occurrence i of the key: the positions at which the group `(.+)` can start
\* (`\s*` runs over spaces and newlines, `.` matches anything but "\n")
CaptureStarts(s, i) ==
  {p \in (i + 1)..Len(s) :
     s[p] # "\n" /\ \A q \in (i + 1)..(p - 1) : s[q] \in Space}

\* the occurrences of the key at which the regular expression matches
KeyMatches(s, key) ==
  {i \in 1..Len(s) : s[i] = key /\ CaptureStarts(s, i) # {}}

\* the end of the line that holds position p
LineEnd(s, p) == Min({q \in p..Len(s) : q = Len(s) \/ s[q + 1] = "\n"})

\* the group of the leftmost match; `\s*` is greedy, so the group starts as
\* late as it can
Capture(s, key) ==
  LET i == Min(KeyMatches(s, key))
      p == Max(CaptureStarts(s, i))
  IN  SubSeq(s, p, LineEnd(s, p))

nameMatch(fm) == KeyMatches(fm, "name:") # {}

descMatch(fm) == KeyMatches(fm, "description:") # {}

\* content.replace(/^---\n[\s\S]+?\n---\n/, ''): the positions of a "\n" at
\* which the lazy part can end; without one the text is left as it is
ReplaceEnds(content) ==
  IF Len(content) >= 2 /\ content[1] = "---" /\ content[2] = "\n"
  THEN {j \in 4..(Len(content) - 2) :
          content[j] = "\n" /\ content[j + 1] = "---" /\ content[j + 2] = "\n"}
  ELSE {}

instructions(content) ==
  IF ReplaceEnds(content) = {}
  THEN content
  ELSE SubSeq(content, Min(ReplaceEnds(content)) + 3, Len(content))

\* `${dir.path}SKILL.md`
skillMdPath(dir) == dir.path \o <<"SKILL.md">>

SkillDescriptor(name, description, path, instr) ==
  [name |-> name, description |-> description, path |-> path,
   instructions |-> instr]

\* the state of the loader's loop: the array skills and the console
Loaded(sk, w) == [skills |-> sk, warned |-> w]

\* a catch block that gives up on the remaining directories: the loader
\* returns nothing
catchAbort(acc, dir) == Loaded(<<>>, Append(acc.warned, skillMdPath(dir)))

\* catch (error) { console.warn(`Warning: Could not load skill from ...`) }
catch(acc, dir) == Loaded(acc.skills, Append(acc.warned, skillMdPath(dir)))

\* a push to the front of the array
unshift(sk, d) == <<d>> \o sk

\* skills.push
push(sk, d) == Append(sk, d)

\* the body of `for (const dir of skillDirs)`
loadSkill(acc, dir) ==
  IF ~dir.is_dir
  THEN acc
  ELSE IF ~dir.readable
  THEN catch(acc, dir)
  ELSE LET content == join(dir.lines, <<"\n">>)
       IN  IF ~frontmatterMatch(content)
           THEN acc
           ELSE LET fm == frontmatter(content)
                IN  IF nameMatch(fm) /\ descMatch(fm)
                    THEN Loaded(push(acc.skills,
                                     SkillDescriptor(trim(Capture(fm, "name:")),
                                                     trim(Capture(fm, "description:")),
                                                     skillMdPath(dir),
                                                     trim(instructions(content)))),
                                acc.warned)
                    ELSE acc

RECURSIVE loadFrom(_, _, _)
loadFrom(acc, dirs, i) ==
  IF i > Len(dirs) THEN acc ELSE loadFrom(loadSkill(acc, dirs[i]), dirs, i + 1)

loadSkillsMetadata(dirs) == loadFrom(Loaded(<<>>, <<>>), dirs, 1).skills

\* ----------------------------------------------------- the files explored
\* an entry of lsInfo: a plain file, or a directory whose SKILL.md readRaw
\* returns as lines or fails to read
DirEntry(path, is_dir, readable, lines) ==
  [path |-> path, is_dir |-> is_dir, readable |-> readable, lines |-> lines]

NameLine == <<"name:", " ", "foo">>

OtherNameLine == <<"name:", " ", "bar">>

DescLine == <<"description:", " ", "Foo", " ", "tool">>

\* the header blocks: both keys in either order, one key missing, a key that
\* ends in `name:`, a value that holds `name:`, a key twice, a key without
\* a value, a key followed by a space and nothing else
Headers ==
  { <<NameLine, DescLine>>,
    <<DescLine, NameLine>>,
    <<NameLine>>,
    <<DescLine>>,
    <<<<"file", "name:", " ", "x">>, DescLine>>,
    <<<<"description:", " ", "see", " ", "name:", " ", "y">>, NameLine>>,
    <<NameLine, OtherNameLine, DescLine>>,
    <<<<"name:">>, DescLine>>,
    <<NameLine, <<"description:", " ">>>> }

PlainTail == <<<<"---">>, <<"Do", " ", "X">>>>

\* what follows the header lines: the closing line and a body, a body with
\* blank lines and spaces around it, the closing line as the last line of
\* the file, a closing line with more characters on it
Tails ==
  { PlainTail,
    <<<<"---">>, <<>>, <<" ", "Do", " ", "X", " ">>, <<>>>>,
    <<<<"---">>>>,
    <<<<"---", "x">>, <<"Do", " ", "X">>>> }

\* every header block with the plain tail, the first block with every tail,
\* and a file without a header
SkillFiles ==
  {<<<<"---">>>> \o h \o PlainTail : h \in Headers}
    \cup {<<<<"---">>, NameLine, DescLine>> \o tl : tl \in Tails}
    \cup {<<<<"Do", " ", "X">>>>}

\* the i-th entry of the listing is named after its position
EntryPath(i) == <<"/skills/", ToString(i), "/">>

EntryKinds ==
  {[is_dir |-> FALSE, readable |-> TRUE, lines |-> <<>>],
   [is_dir |-> TRUE, readable |-> FALSE, lines |-> <<>>]}
    \cup {[is_dir |-> TRUE, readable |-> TRUE, lines |-> f] : f \in SkillFiles}

Listings ==
  UNION {[1..n -> EntryKinds] : n \in 0..MaxEntries}

Listing(kinds) ==
  [i \in 1..Len(kinds) |->
     DirEntry(EntryPath(i), kinds[i].is_dir, kinds[i].readable, kinds[i].lines)]

\* the skills directory of the repository: skills/arxiv-search/SKILL.md
RepoSkillDirs ==
  <<DirEntry(<<"/skills/", "arxiv-search", "/">>, TRUE, TRUE,
             <<<<"---">>,
               <<"name:", " ", "arxiv-search">>,
               <<"description:", " ", "Search", " ", "arXiv", " ", "preprint",
                 " ", "repository">>,
               <<"---">>,
               <<>>,
               <<"#", " ", "arXiv", " ", "Search", " ", "Skill">>,
               <<>>>>)>>

\* ------------------------------------------------------ the graph's functions
\* a reducer that keeps the update only
reducerReplace(x, y) == y

\* the messages reducer: (x, y) => x.concat(y)
reducer(x, y) == x \o y

\* ------------------------------------------------------------ MemorySaver
\* workflow.compile({checkpointer: new MemorySaver()}): the state of a run is
\* stored and loaded under config.configurable.thread_id
\* a checkpointer that loads nothing: every invoke starts from an empty state
getTupleNothing(saved, thread_id) == <<>>

getTuple(saved, thread_id) == saved[thread_id]

\* a checkpointer that stores every state under one key, whatever the thread
putShared(saved, thread_id, messages) == [u \in DOMAIN saved |-> messages]

put(saved, thread_id, messages) == [saved EXCEPT ![thread_id] = messages]

\* a routing that looks at every message instead of the last one
shouldContinueAnyMessage(messages) ==
  IF \E i \in 1..Len(messages) :
       messages[i].has_tool_calls /\ Len(messages[i].tool_calls) > 0
  THEN "tools"
  ELSE "end"

shouldContinue(messages) ==
  LET lastMessage == messages[Len(messages)]
  IN  IF lastMessage.has_tool_calls /\ Len(lastMessage.tool_calls) > 0
      THEN "tools"
      ELSE "end"

\* an edge map that sends "end" back to the agent node
ConditionalEdgeLoop(r) == IF r = "tools" THEN "tools" ELSE "agent"

\* addConditionalEdges("agent", shouldContinue, {tools: "tools", end: END})
ConditionalEdge(r) == IF r = "tools" THEN "tools" ELSE "done"

\* index-with-claude-tools.ts: s.path.replace(/^\/skills\//, 'skills/')
actualPath(v, path) ==
  IF v = "claude" /\ Len(path) > 0 /\ path[1] = "/skills/"
  THEN <<"skills/">> \o Tail(path)
  ELSE path

\* an entry that leaves the name out
renderSkillUnnamed(v, s) ==
  <<"**">> \o <<"**: ">> \o s.description
    \o <<"\n   - Full instructions: Read ">> \o actualPath(v, s.path)
    \o <<" using the read_file tool">>

\* `**${s.name}**: ${s.description}
\*    - Full instructions: Read ${s.path} using the read_file tool`
renderSkill(v, s) ==
  <<"**">> \o s.name \o <<"**: ">> \o s.description
    \o <<"\n   - Full instructions: Read ">> \o actualPath(v, s.path)
    \o <<" using the read_file tool">>

\* the template literal of the agent node: a heading, the entries joined by
\* a blank line, and the usage notes
renderPrompt(v, sk) ==
  <<"You have access to the following skills:", "\n\n">>
    \o join([n \in 1..Len(sk) |-> renderSkill(v, sk[n])], <<"\n\n">>)
    \o <<"\n\n", "When a user asks you to use a skill:">>

\* the text of the skills system message, over the skills main() loaded
skillsPrompt == renderPrompt(variant, skills)

\* a test that holds at the start of every turn
IsFirstCallOfTurn(v, messages) == HasSkillsPrompt(v) /\ Last(messages).type = "human"

\* the agent node's test for adding the skills prompt: messages.length === 1
IsFirstCall(v, messages) == HasSkillsPrompt(v) /\ Len(messages) = 1

\* what the agent node passes to modelWithTools.invoke
messagesWithSkills(v, messages) ==
  IF IsFirstCall(v, messages)
  THEN <<SystemMessage(skillsPrompt)>> \o messages
  ELSE messages

\* an agent node that returns the system message with the response
AgentUpdateWithSkills(v, messages, response) ==
  IF IsFirstCall(v, messages)
  THEN <<SystemMessage(skillsPrompt), response>>
  ELSE <<response>>

\* what the agent node returns as its update of messages
AgentUpdate(v, messages, response) == <<response>>

\* the answers of the chat model: an AIMessage with no tool_calls property,
\* with an empty one, or with 1..MaxCalls calls with fresh ids
CallNames(v, k) == [1..k -> ModelToolNames(v)]

ModelResponse(names, has) ==
  AIMessage([i \in 1..Len(names) |-> ToolCall(nextId + i - 1, names[i])], has)

\* ------------------------------------------------------------------ ToolNode
\* ToolNode of @langchain/langgraph/prebuilt, constructed with the program's
\* tools and default options (handleToolErrors: true): for each tool_call of
\* the last message, concurrently, find the tool by name, invoke it, and wrap
\* the outcome in a ToolMessage; an unknown name or a rejected invocation
\* becomes the message `Error: ${e.message}\n Please fix your mistakes.`
ErrorContent(text) == <<"Error: ">> \o text \o <<"\n Please fix your mistakes.">>

\* a lookup error that does not say which tool
NotFoundUnnamed(name) == <<"Tool not found.">>

NotFound(name) == <<"Tool \"", name, "\" not found.">>

HandlerRuns(v, call) == call.name \in Registry(v)

\* a ToolNode built with {handleToolErrors: false}
handleToolErrorsOff == FALSE

\* new ToolNode(tools): no options, so handleToolErrors has its default
handleToolErrors == TRUE

\* an error that leaves the tools node: app.invoke rejects with it
Rejected(text) == Message("rejected", text, <<>>, FALSE, NoId, "")

\* the catch block of ToolNode around the lookup and the invocation
Caught(text, call) ==
  IF handleToolErrors
  THEN ToolMessage(ErrorContent(text), call.name, call.id)
  ELSE Rejected(text)

runTool(v, call, r) ==
  IF ~HandlerRuns(v, call)
  THEN Caught(NotFound(call.name), call)
  ELSE LET out == ToolFunc(v, call.name, r)
       IN  IF out.threw
           THEN Caught(out.text, call)
           ELSE ToolMessage(out.text, call.name, call.id)

\* Promise.race: the first settled call ends the wait
AnySettled(outs) == \E i \in 1..Len(outs) : outs[i] # NoMsg

\* Promise.all: the outputs in the order of the calls, once all have settled
AllSettled(outs) == \A i \in 1..Len(outs) : outs[i] # NoMsg

\* a tools node that answers the first call only
ToolNodeOutputsFirstOnly(outs, order) == <<outs[1]>>

\* a tools node that emits the outputs as they settle
ToolNodeOutputsAsSettled(outs, order) == [n \in 1..Len(order) |-> outs[order[n]]]

ToolNodeOutputs(outs, order) == outs

\* -------------------------------------------------------------------- Init
\* config.configurable as the agent node sees it: has it a model or not
Configurable(model) == [model |-> model]

\* main() has awaited loadSkillsMetadata(backend, "/skills/") before it builds
\* the graph; index-with-graph.ts loads no skills
LoaderRan ==
  LET dirs == IF HasSkillsPrompt(variant) THEN RepoSkillDirs ELSE <<>>
  IN  /\ skillDirs = dirs
      /\ dirIndex = Len(dirs)
      /\ skills = loadSkillsMetadata(dirs)
      /\ warned = <<>>
      /\ loaderPc = "returned"

EngineInit ==
  /\ variant \in Variants
  /\ transcript = [t \in Threads |-> <<>>]
  /\ pc = [t \in Threads |-> "idle"]
  /\ turn = [t \in Threads |-> 0]
  /\ route = [t \in Threads |-> "none"]
  /\ outputs = [t \in Threads |-> <<>>]
  /\ finished = [t \in Threads |-> <<>>]
  /\ nextId = 1
  /\ modelInput = [t \in Threads |-> <<>>]
  /\ invocations = [t \in Threads |-> 0]
  /\ injectedAt = [t \in Threads |-> {}]
  /\ execLog = {}
  /\ lastResponse = [t \in Threads |-> <<>>]
  /\ config = [t \in Threads |-> Configurable(FALSE)]
  /\ LoaderRan

Init ==
  /\ EngineInit
  /\ ToolsIdle

\* ----------------------------------------------------------------- actions
\* main() awaits each app.invoke before it makes the next: no turn is running
NoTurnRunning == \A u \in Threads : pc[u] \in {"idle", "done"}

\* await app.invoke({messages: [new HumanMessage(query)]},
\*                  {configurable: {thread_id}})
\* the input is reduced into the thread's checkpointed state, START -> agent
InvokeInput(t, input, cfg) ==
  /\ Total(turn) < MaxTurns
  /\ transcript' = put(transcript, t, reducer(getTuple(transcript, t), input))
  /\ pc' = [pc EXCEPT ![t] = "agent"]
  /\ turn' = [turn EXCEPT ![t] = @ + 1]
  /\ config' = [config EXCEPT ![t] = cfg]
  /\ UNCHANGED <<variant, route, outputs, finished, nextId, modelInput,
                 invocations, injectedAt, execLog, lastResponse>>
  /\ UNCHANGED loaderVars
  /\ UNCHANGED toolVars

\* the query of a turn
Query(t) == HumanMessage(<<"query", t, ToString(turn[t] + 1)>>)

\* the programs pass {messages: [new HumanMessage(query)]}
InvokeWith(t, cfg) == InvokeInput(t, <<Query(t)>>, cfg)

\* the programs pass {configurable: {thread_id}}: no model in it
Invoke(t) ==
  /\ NoTurnRunning
  /\ InvokeWith(t, Configurable(FALSE))

\* the agent node, then the conditional edge out of it
AgentStep(t, names, has) ==
  LET messages == transcript[t]
      response == ModelResponse(names, has)
      after    == reducer(messages, AgentUpdate(variant, messages, response))
      r        == shouldContinue(after)
  IN  /\ transcript' = put(transcript, t, after)
      /\ modelInput' = [modelInput EXCEPT ![t] = messagesWithSkills(variant, messages)]
      /\ invocations' = [invocations EXCEPT ![t] = @ + 1]
      /\ injectedAt' = [injectedAt EXCEPT ![t] =
                          IF IsFirstCall(variant, messages)
                          THEN @ \cup {invocations[t] + 1} ELSE @]
      /\ nextId' = nextId + Len(names)
      /\ route' = [route EXCEPT ![t] = r]
      /\ pc' = [pc EXCEPT ![t] = ConditionalEdge(r)]
      /\ outputs' = [outputs EXCEPT ![t] = [i \in 1..Len(response.tool_calls) |-> NoMsg]]
      /\ finished' = [finished EXCEPT ![t] = <<>>]
      /\ UNCHANGED <<variant, turn, execLog, lastResponse, config>>
      /\ UNCHANGED loaderVars
      /\ UNCHANGED toolVars

\* an agent node with a retry policy: it runs again
AfterModelErrorRetry == "agent"

\* the agent node has no try/catch and addNode no retry policy: the error
\* leaves app.invoke, and main().catch logs it and exits
AfterModelError == "model_failed"

\* the agent node when `await modelWithTools.invoke(...)` rejects
AgentThrows(t) ==
  LET messages == transcript[t]
  IN  /\ modelInput' = [modelInput EXCEPT ![t] = messagesWithSkills(variant, messages)]
      /\ invocations' = [invocations EXCEPT ![t] = @ + 1]
      /\ injectedAt' = [injectedAt EXCEPT ![t] =
                          IF IsFirstCall(variant, messages)
                          THEN @ \cup {invocations[t] + 1} ELSE @]
      /\ pc' = [pc EXCEPT ![t] = AfterModelError]
      /\ UNCHANGED <<variant, transcript, turn, route, outputs, finished, nextId,
                     execLog, lastResponse, config>>
      /\ UNCHANGED loaderVars
      /\ UNCHANGED toolVars

Agent(t) ==
  /\ pc[t] = "agent"
  /\ Total(invocations) < MaxInvocations
  /\ \/ \E k \in 0..MaxCalls :
          /\ nextId + k - 1 <= MaxIds
          /\ \E names \in CallNames(variant, k) :
               \E has \in (IF k = 0 THEN BOOLEAN ELSE {TRUE}) :
                 AgentStep(t, names, has)
     \/ AgentThrows(t)

\* one tool call of the running tools node settles
ToolSettle(t, i, r) ==
  LET call == Last(transcript[t]).tool_calls[i]
  IN  /\ outputs' = [outputs EXCEPT ![t][i] = runTool(variant, call, r)]
      /\ finished' = [finished EXCEPT ![t] = Append(@, i)]
      /\ execLog' = IF HandlerRuns(variant, call)
                    THEN execLog \cup {[thread |-> t, id |-> call.id,
                                        name |-> call.name, result |-> r]}
                    ELSE execLog
      /\ UNCHANGED <<variant, transcript, pc, turn, route, nextId, modelInput,
                     invocations, injectedAt, lastResponse, config>>
      /\ UNCHANGED loaderVars
      /\ UNCHANGED toolVars

ToolRun(t) ==
  /\ pc[t] = "tools"
  /\ \E i \in 1..Len(outputs[t]) :
       /\ outputs[t][i] = NoMsg
       /\ \E r \in LoopResults : ToolSettle(t, i, r)

\* the tools node returns {messages: outputs}; edge tools -> agent
ToolJoin(t) ==
  /\ pc[t] = "tools"
  /\ AllSettled(outputs[t])
  /\ IF \E i \in 1..Len(outputs[t]) : outputs[t][i].type = "rejected"
     THEN /\ pc' = [pc EXCEPT ![t] = "failed"]
          /\ UNCHANGED transcript
     ELSE /\ transcript' = put(transcript, t,
                             reducer(transcript[t],
                                     ToolNodeOutputs(outputs[t], finished[t])))
          /\ pc' = [pc EXCEPT ![t] = "agent"]
  /\ outputs' = [outputs EXCEPT ![t] = <<>>]
  /\ UNCHANGED <<variant, turn, route, finished, nextId, modelInput,
                 invocations, injectedAt, execLog, lastResponse, config>>
  /\ UNCHANGED loaderVars
  /\ UNCHANGED toolVars

\* main() reads the returned state: result.messages[length - 1].content
ReadResult(t) ==
  /\ pc[t] = "done"
  /\ lastResponse' = [lastResponse EXCEPT ![t] = Last(transcript[t]).content]
  /\ UNCHANGED <<variant, transcript, pc, turn, route, outputs, finished, nextId,
                 modelInput, invocations, injectedAt, execLog, config>>
  /\ UNCHANGED loaderVars
  /\ UNCHANGED toolVars

Next ==
  \E t \in Threads :
    \/ Invoke(t)
    \/ Agent(t)
    \/ ToolRun(t)
    \/ ToolJoin(t)
    \/ ReadResult(t)

Spec == Init /\ [][Next]_vars

\* ------------------------------------------------------- one tools step
\* The states the first agent step of thread "t1" leaves when the chat model
\* asks for 1..MaxCalls tools out of StepToolNames; from there the tools node
\* runs with every answer of the environment.
StepThread == "t1"

InitStep ==
  /\ variant \in Variants
  /\ LoaderRan
  /\ \E k \in 1..MaxCalls :
       \E names \in [1..k -> StepToolNames(variant)] :
         LET messages == <<HumanMessage(<<"query", StepThread, "1">>)>>
             response == AIMessage([i \in 1..k |-> ToolCall(i, names[i])], TRUE)
             after    == reducer(messages, AgentUpdate(variant, messages, response))
         IN  /\ transcript = [t \in Threads |-> IF t = StepThread THEN after ELSE <<>>]
             /\ pc = [t \in Threads |->
                       IF t = StepThread THEN ConditionalEdge(shouldContinue(after))
                       ELSE "idle"]
             /\ route = [t \in Threads |->
                          IF t = StepThread THEN shouldContinue(after) ELSE "none"]
             /\ outputs = [t \in Threads |->
                            IF t = StepThread THEN [i \in 1..k |-> NoMsg] ELSE <<>>]
             /\ modelInput = [t \in Threads |->
                               IF t = StepThread
                               THEN messagesWithSkills(variant, messages) ELSE <<>>]
             /\ injectedAt = [t \in Threads |->
                               IF t = StepThread /\ IsFirstCall(variant, messages)
                               THEN {1} ELSE {}]
             /\ nextId = k + 1
  /\ turn = [t \in Threads |-> IF t = StepThread THEN 1 ELSE 0]
  /\ invocations = [t \in Threads |-> IF t = StepThread THEN 1 ELSE 0]
  /\ finished = [t \in Threads |-> <<>>]
  /\ execLog = {}
  /\ lastResponse = [t \in Threads |-> <<>>]
  /\ config = [t \in Threads |-> Configurable(FALSE)]
  /\ ToolsIdle

ToolRunAny(t) ==
  /\ pc[t] = "tools"
  /\ \E i \in 1..Len(outputs[t]) :
       /\ outputs[t][i] = NoMsg
       /\ \E r \in EnvResults : ToolSettle(t, i, r)

NextStep ==
  \E t \in Threads :
    \/ ToolRunAny(t)
    \/ ToolJoin(t)

SpecStep == InitStep /\ [][NextStep]_vars

\* ------------------------------------------------------------- callModel
\* index-with-graph.ts declares callModel as the agent node that takes its
\* model from config.configurable; no graph of the repository is built with
\* it. Here it stands as the agent node of that file's graph, and a caller
\* passes a config with or without a model.
InitConfig ==
  /\ Init
  /\ variant = "graph"

InvokeConfigured(t) ==
  /\ NoTurnRunning
  /\ \E model \in BOOLEAN : InvokeWith(t, Configurable(model))

\* a callModel that does not test for the model
modelMissingIgnored(cfg) == FALSE

\* const model = config.configurable?.model; if (!model)
modelMissing(cfg) == ~cfg.model

\* throw new Error("Model not provided in config"), or model.invoke(messages)
\* and {messages: [response]}
callModel(t) ==
  /\ pc[t] = "agent"
  /\ IF modelMissing(config[t])
     THEN /\ pc' = [pc EXCEPT ![t] = "config_failed"]
          /\ UNCHANGED <<variant, transcript, turn, route, outputs, finished,
                         nextId, modelInput, invocations, injectedAt, execLog,
                         lastResponse, config>>
          /\ UNCHANGED loaderVars
          /\ UNCHANGED toolVars
     ELSE Agent(t)

NextConfig ==
  \E t \in Threads :
    \/ InvokeConfigured(t)
    \/ callModel(t)
    \/ ToolRun(t)
    \/ ToolJoin(t)
    \/ ReadResult(t)

SpecConfig == InitConfig /\ [][NextConfig]_vars

\* ------------------------------------------------------- the skill loader
\* loadSkillsMetadata run over every listing of at most MaxEntries entries;
\* index-with-skills.ts and index-with-claude-tools.ts hold the same function
engineVars == <<variant, transcript, pc, turn, route, outputs, finished, nextId,
                modelInput, invocations, injectedAt, execLog, lastResponse,
                config>>

InitLoader ==
  /\ variant = "skills"
  /\ transcript = [t \in Threads |-> <<>>]
  /\ pc = [t \in Threads |-> "idle"]
  /\ turn = [t \in Threads |-> 0]
  /\ route = [t \in Threads |-> "none"]
  /\ outputs = [t \in Threads |-> <<>>]
  /\ finished = [t \in Threads |-> <<>>]
  /\ nextId = 1
  /\ modelInput = [t \in Threads |-> <<>>]
  /\ invocations = [t \in Threads |-> 0]
  /\ injectedAt = [t \in Threads |-> {}]
  /\ execLog = {}
  /\ lastResponse = [t \in Threads |-> <<>>]
  /\ config = [t \in Threads |-> Configurable(FALSE)]
  /\ ToolsIdle
  /\ \E kinds \in Listings : skillDirs = Listing(kinds)
  /\ dirIndex = 0
  /\ skills = <<>>
  /\ warned = <<>>
  /\ loaderPc = "loop"

\* one pass of `for (const dir of skillDirs)`
LoadStep ==
  /\ loaderPc = "loop"
  /\ dirIndex < Len(skillDirs)
  /\ LET acc == loadSkill(Loaded(skills, warned), skillDirs[dirIndex + 1])
     IN  /\ skills' = acc.skills
         /\ warned' = acc.warned
  /\ dirIndex' = dirIndex + 1
  /\ UNCHANGED <<skillDirs, loaderPc>>
  /\ UNCHANGED engineVars
  /\ UNCHANGED toolVars

\* return skills
LoadReturn ==
  /\ loaderPc = "loop"
  /\ dirIndex = Len(skillDirs)
  /\ loaderPc' = "returned"
  /\ UNCHANGED <<skillDirs, dirIndex, skills, warned>>
  /\ UNCHANGED engineVars
  /\ UNCHANGED toolVars

NextLoader ==
  \/ LoadStep
  \/ LoadReturn

SpecLoader == InitLoader /\ [][NextLoader]_vars

\* ------------------------------------------------------ the skills prompt
\* The first agent step of a thread, over every result the loader returns
\* for listings of at most MaxSkills skill files whose names and
\* descriptions are built from a few words and the text `**: `.
RenderNames == {<<"a">>, <<"d">>, <<"a", "**: ", "b">>}

RenderDescriptions == {<<"c">>, <<"b", "**: ", "c">>}

RenderKinds ==
  {[is_dir |-> TRUE, readable |-> TRUE,
    lines |-> <<<<"---">>, <<"name:", " ">> \o n, <<"description:", " ">> \o d>>
                \o PlainTail] :
     n \in RenderNames, d \in RenderDescriptions}

RenderListings == UNION {[1..n -> RenderKinds] : n \in 0..MaxSkills}

InitRender ==
  /\ variant \in {v \in Variants : HasSkillsPrompt(v)}
  /\ \E kinds \in RenderListings :
       /\ skillDirs = Listing(kinds)
       /\ dirIndex = Len(kinds)
       /\ skills = loadSkillsMetadata(Listing(kinds))
       /\ warned = loadFrom(Loaded(<<>>, <<>>), Listing(kinds), 1).warned
  /\ loaderPc = "returned"
  /\ transcript = [t \in Threads |->
                     IF t = StepThread
                     THEN <<HumanMessage(<<"query", StepThread, "1">>)>> ELSE <<>>]
  /\ pc = [t \in Threads |-> IF t = StepThread THEN "agent" ELSE "idle"]
  /\ turn = [t \in Threads |-> IF t = StepThread THEN 1 ELSE 0]
  /\ route = [t \in Threads |-> "none"]
  /\ outputs = [t \in Threads |-> <<>>]
  /\ finished = [t \in Threads |-> <<>>]
  /\ nextId = 1
  /\ modelInput = [t \in Threads |-> <<>>]
  /\ invocations = [t \in Threads |-> 0]
  /\ injectedAt = [t \in Threads |-> {}]
  /\ execLog = {}
  /\ lastResponse = [t \in Threads |-> <<>>]
  /\ config = [t \in Threads |-> Configurable(FALSE)]
  /\ ToolsIdle

NextRender ==
  \E t \in Threads :
    \/ Agent(t)
    \/ ReadResult(t)

SpecRender == InitRender /\ [][NextRender]_vars

\* ------------------------------------------------------------------ claims
HasCalls(m) == m.has_tool_calls /\ Len(m.tool_calls) > 0

CallIds(m) == {m.tool_calls[n].id : n \in 1..Len(m.tool_calls)}

\* the tools node of thread t has not yet returned for the AIMessage at i
Pending(t, i) == pc[t] = "tools" /\ i = Len(transcript[t])

\* the position of the next AIMessage after i, or one past the end
NextAI(tr, i) ==
  IF \E j \in (i + 1)..Len(tr) : tr[j].type = "ai"
  THEN CHOOSE j \in (i + 1)..Len(tr) :
         /\ tr[j].type = "ai"
         /\ \A h \in (i + 1)..(j - 1) : tr[h].type # "ai"
  ELSE Len(tr) + 1

ResultsFor(tr, i, id) ==
  {j \in (i + 1)..(NextAI(tr, i) - 1) : tr[j].type = "tool" /\ tr[j].tool_call_id = id}

\* C1: in every reachable transcript each ToolCall of an Assistant message has,
\* before the next Assistant message, exactly one ToolResult with its id, and
\* every ToolResult answers a call of the Assistant message that precedes it.
C1_EveryCallMatchedOnce ==
  \A t \in Threads :
    LET tr == transcript[t]
    IN  /\ \A i \in 1..Len(tr) :
             (tr[i].type = "ai" /\ ~Pending(t, i)) =>
               \A id \in CallIds(tr[i]) : Cardinality(ResultsFor(tr, i, id)) = 1
        /\ \A j \in 1..Len(tr) :
             tr[j].type = "tool" =>
               \E i \in 1..(j - 1) :
                 /\ tr[i].type = "ai"
                 /\ NextAI(tr, i) > j
                 /\ tr[j].tool_call_id \in CallIds(tr[i])

\* an Assistant message with two calls, answered, and a later Assistant message
C1_Witness ==
  \E t \in Threads :
    \E i \in 1..Len(transcript[t]) :
      /\ transcript[t][i].type = "ai"
      /\ Len(transcript[t][i].tool_calls) = 2
      /\ NextAI(transcript[t], i) <= Len(transcript[t])

\* C2: whatever the order in which the calls of one tools step settle, the
\* ToolResults appended for the step are in the order of the ToolCalls.
C2_ResultsInCallOrder ==
  \A t \in Threads :
    LET tr == transcript[t]
    IN  \A i \in 1..Len(tr) :
          (tr[i].type = "ai" /\ ~Pending(t, i)) =>
            \A n \in 1..Len(tr[i].tool_calls) :
              /\ i + n <= Len(tr)
              /\ tr[i + n].type = "tool"
              /\ tr[i + n].tool_call_id = tr[i].tool_calls[n].id

\* the second call settled before the first, and the step has been appended
C2_Witness ==
  \E t \in Threads :
    /\ finished[t] = <<2, 1>>
    /\ pc[t] = "agent"
    /\ Last(transcript[t]).type = "tool"

\* C3: the routing sends a thread to the tools node exactly when the last
\* message carries at least one tool call; absent and empty tool_calls both end
\* the turn, whatever the earlier messages are.
C3_RoutingByLastMessage ==
  \A t \in Threads :
    (Len(transcript[t]) > 0 /\ Last(transcript[t]).type = "ai") =>
      /\ route[t] = "tools" <=> HasCalls(Last(transcript[t]))
      /\ route[t] = "end" <=> ~HasCalls(Last(transcript[t]))
      /\ pc[t] = "tools" <=> HasCalls(Last(transcript[t]))
      /\ pc[t] = "done" <=> ~HasCalls(Last(transcript[t]))

\* one thread ended on an absent tool_calls, another on an empty one after an
\* earlier message with calls
C3_Witness ==
  \E t, u \in Threads :
    /\ route[t] = "end" /\ Last(transcript[t]).type = "ai"
    /\ ~Last(transcript[t]).has_tool_calls
    /\ route[u] = "end" /\ Last(transcript[u]).type = "ai"
    /\ Last(transcript[u]).has_tool_calls
    /\ \E i \in 1..Len(transcript[u]) : HasCalls(transcript[u][i])

\* the handler runs made for thread t
RunsOf(log, t) == {e \in log : e.thread = t}

Finished(t) ==
  /\ Len(transcript[t]) > 0
  /\ Last(transcript[t]).type = "ai"
  /\ ~HasCalls(Last(transcript[t]))

\* C4: once the last Assistant message of a turn has no tool calls, no step
\* invokes the model or a tool for that thread or changes its transcript,
\* reading the result included, until the caller starts a new turn.
C4_DoneIsTerminal ==
  [][\A t \in Threads :
       Finished(t) =>
         \/ /\ transcript'[t] = transcript[t]
            /\ invocations'[t] = invocations[t]
            /\ RunsOf(execLog', t) = RunsOf(execLog, t)
            /\ pc'[t] = "done"
         \/ /\ turn'[t] = turn[t] + 1
            /\ Len(transcript'[t]) = Len(transcript[t]) + 1
            /\ Last(transcript'[t]).type = "human"
            /\ SubSeq(transcript'[t], 1, Len(transcript[t])) = transcript[t]
            /\ invocations'[t] = invocations[t]
            /\ RunsOf(execLog', t) = RunsOf(execLog, t)]_vars

\* a finished turn whose result has been read
C4_Witness ==
  \E t \in Threads :
    /\ Finished(t)
    /\ pc[t] = "done"
    /\ lastResponse[t] = Last(transcript[t]).content

\* C5: in a program with skills, of all the model invocations of a session,
\* over its turns, exactly the first is given the skill System message.
C5_SkillsPromptOnce ==
  \A t \in Threads :
    HasSkillsPrompt(variant) =>
      /\ injectedAt[t] = (IF invocations[t] >= 1 THEN {1} ELSE {})
      /\ (invocations[t] = 1 /\ Last(transcript[t]).type = "ai") =>
           modelInput[t][1] = SystemMessage(skillsPrompt)
      /\ invocations[t] > 1 =>
           \A i \in 1..Len(modelInput[t]) : modelInput[t][i].type # "system"

\* a session in its second turn after three model invocations
C5_Witness ==
  /\ HasSkillsPrompt(variant)
  /\ \E t \in Threads : turn[t] = 2 /\ invocations[t] = 3

\* C6 as stated: once the skill prompt has been injected, the transcript of the
\* session starts with the System message.
C6_SystemMessageFirst ==
  \A t \in Threads :
    injectedAt[t] # {} => transcript[t][1].type = "system"

\* C6 amended: the System message is put ahead of the Human message in the
\* model's input of the first invocation only; the transcript never holds it,
\* keeps the Human message first, and after a first response without tool
\* calls is exactly [Human, Assistant].
C6_SystemMessageNotStored ==
  \A t \in Threads :
    LET tr == transcript[t]
    IN  /\ \A i \in 1..Len(tr) : tr[i].type # "system"
        /\ injectedAt[t] # {} => tr[1].type = "human"
        /\ (injectedAt[t] # {} /\ invocations[t] = 1) =>
             modelInput[t] = <<SystemMessage(skillsPrompt), tr[1]>>
        /\ (injectedAt[t] # {} /\ invocations[t] = 1 /\ pc[t] = "done") =>
             /\ Len(tr) = 2
             /\ tr[1].type = "human"
             /\ tr[2].type = "ai"

\* a first response without tool calls in a program with skills
C6_Witness ==
  \E t \in Threads :
    /\ injectedAt[t] = {1}
    /\ invocations[t] = 1
    /\ pc[t] = "done"

\* C7: every model invocation that follows a tools step is passed the whole
\* transcript, which then ends with the Assistant message of that step followed
\* by the ToolResults of all its calls.
C7_ReinvokedWithAllResults ==
  \A t \in Threads :
    (Len(transcript[t]) > 0 /\ Last(transcript[t]).type = "ai") =>
      LET prev == SubSeq(transcript[t], 1, Len(transcript[t]) - 1)
      IN  /\ modelInput[t] =
               (IF HasSkillsPrompt(variant) /\ invocations[t] = 1
                THEN <<SystemMessage(skillsPrompt)>> \o prev ELSE prev)
          /\ Last(prev).type \in {"human", "tool"}
          /\ Last(prev).type = "tool" =>
               \E i \in 1..Len(prev) :
                 /\ prev[i].type = "ai"
                 /\ HasCalls(prev[i])
                 /\ i + Len(prev[i].tool_calls) = Len(prev)
                 /\ \A n \in 1..Len(prev[i].tool_calls) :
                      /\ prev[i + n].type = "tool"
                      /\ prev[i + n].tool_call_id = prev[i].tool_calls[n].id

\* the model has answered again after a tools step with two calls
C7_Witness ==
  \E t \in Threads :
    LET tr == transcript[t]
    IN  /\ Len(tr) >= 5
        /\ Last(tr).type = "ai"
        /\ tr[Len(tr) - 1].type = "tool"
        /\ tr[Len(tr) - 2].type = "tool"
        /\ Len(tr[Len(tr) - 3].tool_calls) = 2

\* the text x occurs in the content c (the empty text occurs in every content)
ContainsText(c, x) == x = "" \/ \E i \in 1..Len(c) : c[i] = x

\* the ToolMessages, appended or still held by the tools node, by thread
ToolMessages(t) ==
  {transcript[t][j] : j \in {h \in 1..Len(transcript[t]) : transcript[t][h].type = "tool"}}
  \cup {outputs[t][j] : j \in {h \in 1..Len(outputs[t]) : outputs[t][h].type = "tool"}}

\* the calls of unregistered tools that thread t's transcript holds
UnknownCalls(t) ==
  {c \in UNION {{transcript[t][i].tool_calls[n] : n \in 1..Len(transcript[t][i].tool_calls)} :
                 i \in 1..Len(transcript[t])} : c.name \notin Registry(variant)}

\* C8 as stated: the ToolResult of a call of an unregistered tool has the text
\* "Error: unknown tool '<name>'".
C8_UnknownToolText ==
  \A t \in Threads :
    \A m \in ToolMessages(t) :
      m.name \notin Registry(variant) =>
        m.content = <<"Error: unknown tool '", m.name, "'">>

\* C8 amended: a call of an unregistered tool gets a ToolResult with its id
\* whose text is ToolNode's error `Error: Tool "<name>" not found.` with the
\* hint to fix the mistake, naming the tool; no handler runs for it, the other
\* calls of the step run their handlers, and the thread goes back to the agent
\* node instead of failing.
C8_UnknownToolFolded ==
  \A t \in Threads :
    LET tr == transcript[t]
    IN  /\ pc[t] # "failed"
        /\ \A c \in UnknownCalls(t) : \A e \in execLog : e.id # c.id
        /\ \A i \in 1..Len(tr) :
             (tr[i].type = "ai" /\ ~Pending(t, i)) =>
               \A n \in 1..Len(tr[i].tool_calls) :
                 LET c == tr[i].tool_calls[n]
                 IN  IF c.name \notin Registry(variant)
                     THEN /\ tr[i + n].type = "tool"
                          /\ tr[i + n].tool_call_id = c.id
                          /\ tr[i + n].content =
                               <<"Error: ", "Tool \"", c.name, "\" not found.",
                                 "\n Please fix your mistakes.">>
                          /\ ContainsText(tr[i + n].content, c.name)
                     ELSE \E e \in execLog : e.id = c.id /\ e.thread = t
        /\ (Len(tr) > 0 /\ Last(tr).type = "tool") =>
             pc[t] \in {"agent", AfterModelError}

\* a step with an unregistered and a registered tool, answered, and the model
\* invoked again
C8_Witness ==
  \E t \in Threads :
    LET tr == transcript[t]
    IN  \E i \in 1..Len(tr) :
          /\ tr[i].type = "ai"
          /\ Len(tr[i].tool_calls) = 2
          /\ tr[i].tool_calls[1].name \notin Registry(variant)
          /\ tr[i].tool_calls[2].name \in Registry(variant)
          /\ Len(tr) >= i + 3
          /\ tr[i + 3].type = "ai"

\* the handler runs that failed and whose ToolMessage m answers
FailedRuns(t, m) ==
  {e \in execLog : e.thread = t /\ e.id = m.tool_call_id /\ e.result.kind = "err"}

\* C9 as stated: the ToolResult of a failed tool invocation carries the error's
\* message, and the failure does not leave the engine.
C9_FailureCarriesMessage ==
  \A t \in Threads :
    /\ pc[t] # "failed"
    /\ \A m \in ToolMessages(t) :
         \A e \in FailedRuns(t, m) : ContainsText(m.content, e.result.message)

\* C9 amended: a failed tool invocation is answered by a ToolResult for its
\* call and the thread goes back to the agent node, never failing, also for
\* arxiv_search, which does not catch; the text carries the error's message
\* for arxiv_search, read_file, execute and grep_search, except that
\* grep_search reports exit status 1 as "No matches" and bash_command reports
\* the exit code, stderr and stdout instead of the message.
C9_FailureFolded ==
  \A t \in Threads :
    /\ pc[t] # "failed"
    /\ (Len(transcript[t]) > 0 /\ Last(transcript[t]).type = "tool") => pc[t] = "agent"
    /\ \A e \in RunsOf(execLog, t) :
         \/ \E i \in 1..Len(outputs[t]) :
              Last(transcript[t]).tool_calls[i].id = e.id
         \/ \E j \in 1..Len(transcript[t]) :
              transcript[t][j].type = "tool" /\ transcript[t][j].tool_call_id = e.id
    /\ \A m \in ToolMessages(t) :
         \A e \in FailedRuns(t, m) :
           CASE e.name = "bash_command" ->
                  /\ ContainsText(m.content, ExitCode(e.result))
                  /\ ContainsText(m.content, e.result.stderr)
                  /\ ContainsText(m.content, e.result.stdout)
                  /\ ~ContainsText(m.content, e.result.message)
             [] e.name = "grep_search" /\ e.result.status = "1" ->
                  m.content = <<"No matches">>
             [] OTHER ->
                  ContainsText(m.content, e.result.message)

\* arxiv_search threw, its ToolResult was appended and the thread is back at
\* the agent node
C9_Witness ==
  \E t \in Threads :
    \E j \in 1..Len(transcript[t]) :
      /\ transcript[t][j].type = "tool"
      /\ transcript[t][j].name = "arxiv_search"
      /\ FailedRuns(t, transcript[t][j]) # {}
      /\ pc[t] = "agent"

CommandTools == {"bash_command", "execute", "grep_search"}

\* C10 as stated: the text a failed command tool returns holds the error's
\* message, the command's stdout and its stderr.
C10_MessageStdoutStderr ==
  \A t \in Threads :
    \A m \in ToolMessages(t) :
      \A e \in FailedRuns(t, m) :
        e.name \in CommandTools =>
          /\ ContainsText(m.content, e.result.message)
          /\ ContainsText(m.content, e.result.stdout)
          /\ ContainsText(m.content, e.result.stderr)

\* a stream's text is absent from the content, though the stream was not empty
Omits(c, x) == x # "" /\ ~ContainsText(c, x)

\* C10 amended: on failure bash_command returns the exit code ('unknown' if
\* there is none), stderr and stdout but not the message; execute returns the
\* message and stderr ('N/A' if empty) but not stdout; grep_search returns
\* "No matches" for exit status 1 and otherwise the message alone.
C10_CommandFailureText ==
  \A t \in Threads :
    \A m \in ToolMessages(t) :
      \A e \in FailedRuns(t, m) :
        LET r == e.result
        IN  CASE e.name = "bash_command" ->
                   /\ m.content[1] = "Error (exit code "
                   /\ m.content[2] = (IF r.status = "null" THEN "unknown" ELSE r.status)
                   /\ ContainsText(m.content, r.stderr)
                   /\ ContainsText(m.content, r.stdout)
                   /\ ~ContainsText(m.content, r.message)
              [] e.name = "execute" ->
                   /\ ContainsText(m.content, r.message)
                   /\ ContainsText(m.content, IF r.stderr = "" THEN "N/A" ELSE r.stderr)
                   /\ ~Omits(m.content, r.stderr)
                   /\ r.stdout # "" => Omits(m.content, r.stdout)
              [] e.name = "grep_search" ->
                   IF r.status = "1"
                   THEN m.content = <<"No matches">>
                   ELSE /\ ContainsText(m.content, r.message)
                        /\ r.stdout # "" => Omits(m.content, r.stdout)
                        /\ r.stderr # "" => Omits(m.content, r.stderr)
              [] OTHER -> TRUE

\* bash_command failed with output on both streams and was answered
C10_Witness ==
  \E t \in Threads :
    \E j \in 1..Len(transcript[t]) :
      /\ transcript[t][j].type = "tool"
      /\ transcript[t][j].name = "bash_command"
      /\ \E e \in FailedRuns(t, transcript[t][j]) :
           e.result.stdout # "" /\ e.result.stderr # ""

\* ------------------------------------------------------ claims on the loader
\* A header as the format describes it, read line by line: the first line is
\* `---`, a later line is `---`, and the lines between are `key: value`.
KeyOf(line) == IF Len(line) = 0 THEN "" ELSE line[1]

ValueOf(line) == IF Len(line) = 0 THEN <<>> ELSE Tail(line)

IsBlank(text) == \A i \in 1..Len(text) : text[i] \in Space

\* the lines that close a header opened on line 1
ClosingLines(lines) == {k \in 3..Len(lines) : lines[k] = <<"---">>}

HasHeader(lines) ==
  Len(lines) >= 1 /\ lines[1] = <<"---">> /\ ClosingLines(lines) # {}

HeaderLines(lines) == SubSeq(lines, 2, Min(ClosingLines(lines)) - 1)

\* the header lines whose key is exactly `key` and that carry a value
LinesWithKey(hl, key) ==
  {k \in 1..Len(hl) : KeyOf(hl[k]) = key /\ ~IsBlank(ValueOf(hl[k]))}

ValidHeader(lines) ==
  /\ HasHeader(lines)
  /\ LinesWithKey(HeaderLines(lines), "name:") # {}
  /\ LinesWithKey(HeaderLines(lines), "description:") # {}

\* the entries the loop has passed, and the descriptors that came from one
Passed == 1..dirIndex

DescriptorsOf(i) ==
  {n \in 1..Len(skills) : skills[n].path = skillMdPath(skillDirs[i])}

HoldsFile(i) == skillDirs[i].is_dir /\ skillDirs[i].readable

\* text without its leading and trailing spaces and newlines
Stripped(text) ==
  LET kept == {i \in 1..Len(text) : text[i] \notin Space}
  IN  IF kept = {} THEN <<>>
      ELSE [n \in 1..(Max(kept) - Min(kept) + 1) |-> text[Min(kept) + n - 1]]

\* C11: over a root with N subdirectories of which M hold an instruction
\* file with a valid header, the loader returns exactly M descriptors
\* whatever the other subdirectories hold, and none when M = 0.
C11_OnePerValidHeader ==
  loaderPc = "returned" =>
    Len(skills) = Cardinality({i \in 1..Len(skillDirs) :
                                 HoldsFile(i) /\ ValidHeader(skillDirs[i].lines)})

\* the text after the line that closes the header
BodyAfterHeader(lines) ==
  join(SubSeq(lines, Min(ClosingLines(lines)) + 1, Len(lines)), <<"\n">>)

ClosedByNewline(lines) ==
  \E k \in ClosingLines(lines) : k < Len(lines)

LooseHeaderLines(lines) ==
  SubSeq(lines, 2,
         Min({k \in 3..(Len(lines) + 1) :
                k = Len(lines) + 1 \/ KeyOf(lines[k]) = "---"}) - 1)

\* C13: the name of a descriptor is the value of the first header line whose
\* key is exactly `name`, its description the value of the first line whose
\* key is exactly `description`, whatever the order of the lines and
\* whatever other keys or values hold the text `name:` or `description:`.
C13_ExactKeys ==
  \A i \in Passed :
    HoldsFile(i) =>
      \A n \in DescriptorsOf(i) :
        LET hl == LooseHeaderLines(skillDirs[i].lines)
            nl == LinesWithKey(hl, "name:")
            dl == LinesWithKey(hl, "description:")
        IN  /\ nl # {}
            /\ dl # {}
            /\ skills[n].name = Stripped(ValueOf(hl[Min(nl)]))
            /\ skills[n].description = Stripped(ValueOf(hl[Min(dl)]))

\* C14: a file whose header lacks `name` or `description`, or that has no
\* header, gives no descriptor, a warning is logged for it, and the loop
\* goes on.
C14_SkippedWithWarning ==
  \A i \in Passed :
    (HoldsFile(i) /\ ~ValidHeader(skillDirs[i].lines)) =>
      /\ DescriptorsOf(i) = {}
      /\ \E w \in 1..Len(warned) : warned[w] = skillMdPath(skillDirs[i])

\* an entry that is no directory whose file fails to read
Reads(dir) == ~dir.is_dir \/ dir.readable

\* C15: a read error on one skill's file, the file being absent included,
\* skips that skill only: at every point of the loop the descriptors are
\* those the loader collects from the entries passed so far with the failing
\* ones taken out, each failing one is warned about, and the loader returns
\* once every entry is passed.
C15_ReadErrorSkipsOne ==
  /\ skills = loadSkillsMetadata(SelectSeq(SubSeq(skillDirs, 1, dirIndex), Reads))
  /\ \A i \in Passed :
       ~Reads(skillDirs[i]) =>
         /\ DescriptorsOf(i) = {}
         /\ \E w \in 1..Len(warned) : warned[w] = skillMdPath(skillDirs[i])
  /\ loaderPc = "returned" => dirIndex = Len(skillDirs)

C15_Witness ==
  /\ loaderPc = "returned"
  /\ Len(skillDirs) = 3
  /\ ~Reads(skillDirs[2])
  /\ DescriptorsOf(1) # {}
  /\ DescriptorsOf(3) # {}

\* C16: only the directories among the entries give descriptors, at most
\* one each, and the descriptors stand in the order of the listing.
C16_DirectoriesInOrder ==
  \A n \in 1..Len(skills) :
    \E i \in Passed :
      /\ skillDirs[i].is_dir
      /\ skills[n].path = skillMdPath(skillDirs[i])
      /\ \A m \in 1..(n - 1) :
           \E j \in 1..(i - 1) : skills[m].path = skillMdPath(skillDirs[j])

C16_Witness ==
  /\ loaderPc = "returned"
  /\ Len(skillDirs) = 3
  /\ ~skillDirs[2].is_dir
  /\ Len(skills) = 2

\* ------------------------------------------------- claims on the rendering
Names(sk) == {sk[n].name : n \in 1..Len(sk)}

Unmarked(sk) ==
  \A n \in 1..Len(sk) : \A i \in 1..Len(sk[n].name) : sk[n].name[i] # "**: "

\* the results the loader returns over the listings explored, each with the
\* prompt either program renders from it
Renderings ==
  [v \in {u \in Variants : HasSkillsPrompt(u)} |->
     {[text |-> renderPrompt(v, loadSkillsMetadata(Listing(k))),
       names |-> Names(loadSkillsMetadata(Listing(k))),
       unmarked |-> Unmarked(loadSkillsMetadata(Listing(k)))] :
        k \in RenderListings}]

\* the skills prompt a thread's first model invocation was given
Prompted(t) == invocations[t] >= 1 /\ 1 \in injectedAt[t]

\* C17 as stated: the names can be read back from the rendered prompt,
\* whatever sequence the loader returned. Reading back is a function of the
\* text, so any other sequence the loader can return that renders to the
\* same text must have the same set of names.
C17_NamesReadBack ==
  \A t \in Threads :
    Prompted(t) =>
      \A r \in Renderings[variant] :
        r.text = modelInput[t][1].content => r.names = Names(skills)

\* C17: among the sequences the loader can return in which no name holds
\* the text `**: `, the rendered prompt determines the set of names.
C17_UnmarkedNamesReadBack ==
  \A t \in Threads :
    (Prompted(t) /\ Unmarked(skills)) =>
      \A r \in Renderings[variant] :
        (r.unmarked /\ r.text = modelInput[t][1].content) =>
          r.names = Names(skills)

C17_Witness ==
  \E t \in Threads :
    /\ Prompted(t)
    /\ Unmarked(skills)
    /\ Len(skills) = 2
    /\ skills[1].name # skills[2].name
    /\ \E n \in 1..Len(skills), i \in 1..4 :
         i <= Len(skills[n].description) /\ skills[n].description[i] = "**: "
    /\ modelInput[t][1].content = renderPrompt(variant, skills)

\* ------------------------------------------------ claims on failing turns
AICount(tr) == Cardinality({i \in 1..Len(tr) : tr[i].type = "ai"})

C19_NoRetryNoMessage ==
  \A t \in Threads :
    \/ /\ pc[t] # "model_failed"
       /\ invocations[t] = AICount(transcript[t])
    \/ /\ pc[t] = "model_failed"
       /\ invocations[t] = AICount(transcript[t]) + 1
       /\ Last(transcript[t]).type \in {"human", "tool"}
       /\ modelInput[t] = messagesWithSkills(variant, transcript[t])

C19_Witness ==
  \E t \in Threads :
    /\ pc[t] = "model_failed"
    /\ invocations[t] = 2
    /\ Last(transcript[t]).type = "tool"


\* --------------------------------------------------- interleaved sessions
\* One compiled graph serves every thread_id: a caller that does not await an
\* app.invoke before the next has the other session's turn running in between.
\* The steps of the sessions interleave in every order; what the caller does
\* with a returned state is not part of them.
InvokeConcurrent(t) ==
  /\ pc[t] \in {"idle", "done"}
  /\ InvokeWith(t, Configurable(FALSE))

NextConcurrent ==
  \E t \in Threads :
    \/ InvokeConcurrent(t)
    \/ Agent(t)
    \/ ToolRun(t)
    \/ ToolJoin(t)

SpecConcurrent == Init /\ [][NextConcurrent]_vars

\* -------------------------------------------------- claims on the sessions
\* what the engine holds for one session
SessionState(t) ==
  <<transcript[t], pc[t], turn[t], route[t], outputs[t], finished[t],
    modelInput[t], invocations[t], injectedAt[t], lastResponse[t], config[t]>>

IdsIn(tr) ==
  UNION {{tr[i].tool_calls[n].id : n \in 1..Len(tr[i].tool_calls)} :
         i \in {j \in 1..Len(tr) : tr[j].type = "ai"}}

\* every message of the transcript of t was made in the conversation of t
OwnMessages(t) ==
  LET tr == transcript[t]
  IN  /\ \A i \in 1..Len(tr) :
           /\ tr[i].type = "human" => tr[i].content[2] = t
           /\ tr[i].type = "tool" => tr[i].tool_call_id \in IdsIn(SubSeq(tr, 1, i - 1))
      /\ \A u \in Threads \ {t} : IdsIn(tr) \cap IdsIn(transcript[u]) = {}

\* C21: whatever the interleaving of two sessions with different thread
\* identifiers, a transcript holds only the Human messages sent to its own
\* session, the tool calls its own model responses made and the results of
\* these calls, and a step taken for one session leaves the transcript of the
\* other session as it was.
C21_SessionsIsolated ==
  /\ [](\A t \in Threads : OwnMessages(t))
  /\ [][\A t \in Threads :
          SessionState(t)' # SessionState(t) =>
            \A u \in Threads \ {t} : transcript'[u] = transcript[u]]_vars

\* both sessions have a tools step behind them while the other one was running
C21_Witness ==
  /\ \A t \in Threads :
       /\ Len(transcript[t]) >= 3
       /\ transcript[t][3].type = "tool"
  /\ \E t \in Threads : pc[t] = "agent"


IsPrefix(a, b) == Len(a) <= Len(b) /\ SubSeq(b, 1, Len(a)) = a

\* C22: every step of the engine (the invoke that adds the Human message of a
\* turn, an agent step, a tools step) leaves each transcript as it was or
\* longer with the previous transcript as its prefix: no message is removed,
\* reordered or rewritten.
C22_AppendOnly ==
  [][\A t \in Threads : IsPrefix(transcript[t], transcript'[t])]_vars

\* a second turn has been answered on top of a first turn that ran a tool
C22_Witness ==
  \E t \in Threads :
    LET tr == transcript[t]
    IN  /\ turn[t] = 2
        /\ Len(tr) >= 6
        /\ tr[3].type = "tool"
        /\ tr[Len(tr) - 1].type = "human"
        /\ Last(tr).type = "ai"


\* ----------------------------------------------------------- one long turn
\* One turn of thread "t1" in which the chat model asks for one registered
\* tool as often as it likes before it answers without tool calls; every
\* model and tool invocation completes. app.invoke is given
\* {configurable: {thread_id}} and no recursionLimit, so the compiled graph
\* runs with the default of LangGraph: a turn that has run RecursionLimit
\* nodes and has not reached END is ended with a GraphRecursionError.
RecursionLimit == 25

LoopToolName(v) == CHOOSE n \in ModelToolNames(v) : n \in Registry(v)

LoopResult == OkResult("output")

\* index of the Human message that started the running turn
TurnStart(tr) ==
  LET humans == {i \in 1..Len(tr) : tr[i].type = "human"}
  IN  IF humans = {} THEN 0 ELSE CHOOSE i \in humans : \A j \in humans : j <= i

\* the nodes the running turn has run: one agent node for each model response
\* and one tools node for each response whose tool results follow it
StepsOfTurn(tr) ==
  LET turnMessages == (TurnStart(tr) + 1)..Len(tr)
  IN  Cardinality({i \in turnMessages : tr[i].type = "ai"})
      + Cardinality({i \in turnMessages :
                       tr[i].type = "ai" /\ i < Len(tr) /\ tr[i + 1].type = "tool"})

\* a graph that gives up after its first node
outOfStepsAtOnce(step) == step >= 1

outOfSteps(step) == step >= RecursionLimit

InitLoop == Init

InvokeLoop(t) ==
  /\ t = StepThread
  /\ pc[t] = "idle"
  /\ InvokeWith(t, Configurable(FALSE))

AgentLoop(t) ==
  /\ pc[t] = "agent"
  /\ ~outOfSteps(StepsOfTurn(transcript[t]))
  /\ \/ \E has \in BOOLEAN : AgentStep(t, <<>>, has)
     \/ AgentStep(t, <<LoopToolName(variant)>>, TRUE)

ToolRunLoop(t) ==
  /\ pc[t] = "tools"
  /\ ~outOfSteps(StepsOfTurn(transcript[t]))
  /\ \E i \in 1..Len(outputs[t]) :
       /\ outputs[t][i] = NoMsg
       /\ ToolSettle(t, i, LoopResult)

ToolJoinLoop(t) ==
  /\ ~outOfSteps(StepsOfTurn(transcript[t]))
  /\ ToolJoin(t)

\* GraphRecursionError leaves app.invoke; main().catch logs it and exits
RecursionStop(t) ==
  /\ pc[t] \in {"agent", "tools"}
  /\ outOfSteps(StepsOfTurn(transcript[t]))
  /\ pc' = [pc EXCEPT ![t] = "recursion_failed"]
  /\ UNCHANGED <<variant, transcript, turn, route, outputs, finished, nextId,
                 modelInput, invocations, injectedAt, execLog, lastResponse,
                 config>>
  /\ UNCHANGED loaderVars
  /\ UNCHANGED toolVars

NextLoop ==
  \E t \in Threads :
    \/ InvokeLoop(t)
    \/ AgentLoop(t)
    \/ ToolRunLoop(t)
    \/ ToolJoinLoop(t)
    \/ RecursionStop(t)
    \/ ReadResult(t)

SpecLoop == InitLoop /\ [][NextLoop]_vars

\* every awaited model and tool invocation completes and its continuation
\* runs: a step that stays possible is taken
SpecLoopFair == SpecLoop /\ WF_vars(NextLoop)

CallerSystem == SystemMessage(<<"caller", " ", "instructions">>)

CallerInputs(t) ==
  { <<Query(t)>>, <<CallerSystem, Query(t)>>, <<CallerSystem>> }

InvokeCaller(t) ==
  /\ NoTurnRunning
  /\ \E input \in CallerInputs(t) : InvokeInput(t, input, Configurable(FALSE))

NextCaller ==
  \E t \in Threads :
    \/ InvokeCaller(t)
    \/ Agent(t)
    \/ ToolRun(t)
    \/ ToolJoin(t)
    \/ ReadResult(t)

SpecCaller == Init /\ [][NextCaller]_vars

CountOf(tr, type) == Cardinality({i \in 1..Len(tr) : tr[i].type = type})

\* C24: in the programs that build a skills prompt, the model invocation that
\* produced the last Assistant message got the skill System message if and
\* only if the transcript it was made on held exactly one Human message and
\* no Assistant message, whatever other messages it held.
C24_InjectedOnFirstHuman ==
  \A t \in Threads :
    (HasSkillsPrompt(variant) /\ Len(transcript[t]) > 0
       /\ Last(transcript[t]).type = "ai" /\ pc[t] # AfterModelError) =>
      LET messages == SubSeq(transcript[t], 1, Len(transcript[t]) - 1)
      IN  invocations[t] \in injectedAt[t] <=>
            (CountOf(messages, "human") = 1 /\ CountOf(messages, "ai") = 0)


\* --------------------------------------------------------------- edit_file
\* index-with-claude-tools.ts editTool, called by itself on one file. A
\* content is a sequence of characters.
MaxFileLen == 3

MaxArgLen == 2

Chars == {"a", "$", "&"}

Strings(n) == UNION {[1..k -> Chars] : k \in 0..n}

\* s.indexOf(sep) + 1: where sep first starts in s, 0 when nowhere
indexOf(s, sep) ==
  LET at == {i \in 1..(Len(s) - Len(sep) + 1) : SubSeq(s, i, i + Len(sep) - 1) = sep}
  IN  IF at = {} THEN 0 ELSE Min(at)

\* s.split(sep): an empty sep cuts s into its characters
RECURSIVE split(_, _)
split(s, sep) ==
  IF sep = <<>> THEN [i \in 1..Len(s) |-> <<s[i]>>]
  ELSE LET i == indexOf(s, sep)
       IN  IF i = 0 THEN <<s>>
           ELSE <<SubSeq(s, 1, i - 1)>> \o split(SubSeq(s, i + Len(sep), Len(s)), sep)

\* what replace and replaceAll put for a match when the replacement is a
\* string: $$ is $, $& the match, $` the text before it, $' the text after it
RECURSIVE GetSubstitution(_, _, _, _)
GetSubstitution(matched, before, after, replacement) ==
  IF replacement = <<>> THEN <<>>
  ELSE IF /\ replacement[1] = "$"
          /\ Len(replacement) >= 2
          /\ replacement[2] \in {"$", "&", "`", "'"}
       THEN (CASE replacement[2] = "$" -> <<"$">>
               [] replacement[2] = "&" -> matched
               [] replacement[2] = "`" -> before
               [] replacement[2] = "'" -> after)
            \o GetSubstitution(matched, before, after,
                               SubSeq(replacement, 3, Len(replacement)))
       ELSE <<replacement[1]>>
            \o GetSubstitution(matched, before, after, Tail(replacement))

\* a replace that takes the replacement as it is written
replaceLiterally(s, pattern, replacement) ==
  LET i == indexOf(s, pattern)
  IN  IF i = 0 THEN s
      ELSE SubSeq(s, 1, i - 1) \o replacement \o SubSeq(s, i + Len(pattern), Len(s))

\* s.replace(pattern, replacement) with a string pattern: the first match
replace(s, pattern, replacement) ==
  LET i == indexOf(s, pattern)
      before == SubSeq(s, 1, i - 1)
      after == SubSeq(s, i + Len(pattern), Len(s))
  IN  IF i = 0 THEN s
      ELSE before \o GetSubstitution(pattern, before, after, replacement) \o after

\* s.replaceAll(pattern, replacement) from index `from` on: every match, left
\* to right without overlap; an empty pattern matches before every character
\* and at the end
RECURSIVE replaceAllFrom(_, _, _, _)
replaceAllFrom(s, pattern, replacement, from) ==
  LET at == {i \in from..(Len(s) - Len(pattern) + 1) :
               SubSeq(s, i, i + Len(pattern) - 1) = pattern}
  IN  IF at = {} THEN SubSeq(s, from, Len(s))
      ELSE LET i == Min(at)
               passed == IF pattern = <<>> /\ i <= Len(s) THEN <<s[i]>> ELSE <<>>
               next == IF pattern = <<>> THEN i + 1 ELSE i + Len(pattern)
           IN  SubSeq(s, from, i - 1)
               \o GetSubstitution(pattern, SubSeq(s, 1, i - 1),
                                  SubSeq(s, i + Len(pattern), Len(s)), replacement)
               \o passed
               \o (IF next > Len(s) + 1 THEN <<>>
                   ELSE replaceAllFrom(s, pattern, replacement, next))

replaceAll(s, pattern, replacement) == replaceAllFrom(s, pattern, replacement, 1)

\* (content.match(new RegExp(escapedOldString, 'g')) || []).length
matchCount(s, pattern) ==
  IF pattern = <<>> THEN Len(s) + 1 ELSE Len(split(s, pattern)) - 1

\* what a run of editTool returns and what the file holds after it
Edited(text, content) == [text |-> text, content |-> content]

editTool(file_path, old_string, new_string, replace_all, f) ==
  IF old_string = new_string
  THEN Edited(<<"Error: old_string and new_string are the same">>, f.content)
  ELSE IF ~f.exists
  THEN Edited(<<"Error: ", "ENOENT: no such file or directory">>, f.content)
  ELSE IF replace_all
  THEN Edited(<<"Replaced ", ToString(matchCount(f.content, old_string)),
                " occurrence(s): ", file_path>>,
              replaceAll(f.content, old_string, new_string))
  ELSE LET occurrences == Len(split(f.content, old_string)) - 1
       IN  IF occurrences = 0
           THEN Edited(<<"Error: old_string not found">>, f.content)
           ELSE IF occurrences > 1
           THEN Edited(<<"Error: old_string found in ", ToString(occurrences),
                         " places. Must be unique. Include more context or use replace_all=true.">>,
                       f.content)
           ELSE Edited(<<"File edited: ", file_path>>,
                       replace(f.content, old_string, new_string))

EditCall(old_string, new_string, replace_all) ==
  [name |-> "edit_file", file_path |-> "notes.md", old_string |-> old_string,
   new_string |-> new_string, replace_all |-> replace_all]

\* an edit_file call on a file of at most MaxFileLen characters, or on none
InitEdit ==
  /\ \E exists \in BOOLEAN :
       \E content \in (IF exists THEN Strings(MaxFileLen) ELSE {<<>>}) :
         file = File(exists, content)
  /\ \E old_string \in Strings(MaxArgLen), new_string \in Strings(MaxArgLen) :
       \E replace_all \in BOOLEAN :
         toolCall = EditCall(old_string, new_string, replace_all)

EditFile ==
  /\ toolCall.name = "edit_file"
  /\ ~toolOutput.ran
  /\ LET ran == editTool(toolCall.file_path, toolCall.old_string,
                         toolCall.new_string, toolCall.replace_all, file)
     IN  /\ toolOutput' = Ran(ran.text)
         /\ file' = File(file.exists, ran.content)
  /\ UNCHANGED <<toolCall, httpResponse>>
  /\ UNCHANGED engineVars
  /\ UNCHANGED loaderVars

\* --------------------------------------------------------------- read_file
\* index-with-claude-tools.ts readTool, called by itself on one file. Here a
\* content is the sequence of lines that content.split("\n") gives: at least
\* one line, the last one empty when the file ends with a newline.
DefaultLimit == 2000

MaxLines == 4

MaxOffset == 3

MaxLimit == 3

Line(i) == <<"line ", ToString(i)>>

LinesFile(n, newlineAtEnd) ==
  [i \in 1..n |-> IF i = n /\ newlineAtEnd THEN <<>> ELSE Line(i)]

\* lines.slice(start, end) for start, end >= 0
slice(lines, start, end) ==
  SubSeq(lines, start + 1, Min({end, Len(lines)}))

\* x || d for numbers: 0 and a missing value give d
NumberOr(x, d) == IF x = Omitted \/ x = Given(0) THEN d ELSE x[1]

\* the returned text, one row for each line; the rows are joined by "\n"
readTool(offset, limit, f) ==
  IF ~f.exists THEN <<<<"Error: ", "ENOENT: no such file or directory">>>>
  ELSE LET lines == f.content
           startLine == NumberOr(offset, 0)
           endLine == IF NumberOr(limit, 0) # 0 THEN startLine + limit[1]
                      ELSE Min({startLine + DefaultLimit, Len(lines)})
           sliced == slice(lines, startLine, endLine)
       IN  [idx \in 1..Len(sliced) |->
              <<ToString(startLine + (idx - 1) + 1), "→">> \o sliced[idx]]

ReadCall(offset, limit) ==
  [name |-> "read_file", file_path |-> "notes.md", offset |-> offset,
   limit |-> limit]

Optional(S) == {Omitted} \cup {Given(x) : x \in S}

\* a read_file call on a file of at most MaxLines lines, or of a little more
\* than DefaultLimit lines, or on none
InitRead ==
  /\ \/ file = File(FALSE, <<>>)
     \/ \E n \in (1..MaxLines) \cup (DefaultLimit..(DefaultLimit + MaxOffset + 1)) :
          \E newlineAtEnd \in BOOLEAN :
            file = File(TRUE, LinesFile(n, newlineAtEnd))
  /\ \E offset \in Optional(0..MaxOffset), limit \in Optional(0..MaxLimit) :
       toolCall = ReadCall(offset, limit)

ReadFile ==
  /\ toolCall.name = "read_file"
  /\ ~toolOutput.ran
  /\ toolOutput' = Ran(readTool(toolCall.offset, toolCall.limit, file))
  /\ UNCHANGED <<toolCall, file, httpResponse>>
  /\ UNCHANGED engineVars
  /\ UNCHANGED loaderVars

InitFiles ==
  /\ EngineInit
  /\ variant = "claude"
  /\ InitEdit \/ InitRead
  /\ httpResponse = Response(FALSE, "none", <<>>)
  /\ toolOutput = NotRun

NextFiles ==
  \/ EditFile
  \/ ReadFile

SpecFiles == InitFiles /\ [][NextFiles]_vars

\* where old_string starts in content, one place for each position
Occurrences(content, old_string) ==
  {i \in 1..(Len(content) - Len(old_string) + 1) :
     SubSeq(content, i, i + Len(old_string) - 1) = old_string}

IsErrorText(text) == Len(text) > 0 /\ text[1] \in {"Error: ", "Error: old_string and new_string are the same", "Error: old_string not found", "Error: old_string found in "}

\* C25: a run of edit_file without replace_all writes the file only when
\* old_string differs from new_string and starts at exactly one place of the
\* content; the file then holds the content with new_string in that place and
\* the run does not return an error. In every other case the run returns an
\* error text and the content is as it was.
C25_EditsTheOnlyOccurrence ==
  [][(toolCall.name = "edit_file" /\ ~toolCall.replace_all
        /\ ~toolOutput.ran /\ toolOutput'.ran) =>
       LET content == file.content
           old == toolCall.old_string
           at == Occurrences(content, old)
       IN  IF file.exists /\ old # toolCall.new_string /\ Cardinality(at) = 1
           THEN LET i == CHOOSE j \in at : TRUE
                IN  /\ ~IsErrorText(toolOutput'.text)
                    /\ file'.content = SubSeq(content, 1, i - 1) \o toolCall.new_string
                                         \o SubSeq(content, i + Len(old), Len(content))
           ELSE /\ IsErrorText(toolOutput'.text)
                /\ file'.content = content]_vars


\* C26: a run of read_file on an existing file returns one row for each of
\* the lines from line number offset on (from line 1 when offset is left
\* out or 0), at most limit of them (at most DefaultLimit when limit is left
\* out), each row being the line's 1-based number in the file, an arrow and
\* the line.
C26_ReadsFromOffset ==
  (toolCall.name = "read_file" /\ toolOutput.ran /\ file.exists) =>
    LET lines == file.content
        first == IF toolCall.offset = Omitted \/ toolCall.offset = Given(0)
                 THEN 1 ELSE toolCall.offset[1]
        count == IF toolCall.limit = Omitted THEN DefaultLimit ELSE toolCall.limit[1]
        last == Min({first + count - 1, Len(lines)})
    IN  toolOutput.text =
          [idx \in 1..(IF last < first THEN 0 ELSE last - first + 1) |->
             <<ToString(first + idx - 1), "→">> \o lines[first + idx - 1]]


\* ------------------------------------------------- web_fetch and fetch_url
\* index-with-claude-tools.ts webFetchTool and index-with-skills.ts
\* fetchUrlTool, called by themselves on one response. A body is a sequence
\* of characters.
DefaultMaxLength == 50000

MaxBodyLen == 3

MaxLength == 3

Body(n) == [i \in 1..n |-> ToString(i % 7)]

\* a truncation that always cuts at the default length
truncateAtDefault(text, maxLength) ==
  IF Len(text) > DefaultMaxLength
  THEN SubSeq(text, 1, DefaultMaxLength)
       \o <<"\n\n[... Content truncated. Original length: ", ToString(Len(text)),
            " characters, showing first ", ToString(DefaultMaxLength),
            " characters ...]">>
  ELSE text

\* if (text.length > maxLength) return `${text.substring(0, maxLength)}...`
truncate(text, maxLength) ==
  IF Len(text) > maxLength
  THEN SubSeq(text, 1, maxLength)
       \o <<"\n\n[... Content truncated. Original length: ", ToString(Len(text)),
            " characters, showing first ", ToString(maxLength),
            " characters ...]">>
  ELSE text

\* maxLength = 50000 in the parameter list: the default for a missing value
maxLengthOf(maxLength) ==
  IF maxLength = Omitted THEN DefaultMaxLength ELSE maxLength[1]

FetchRejected == Response(FALSE, "rejected", <<>>)

webFetchTool(url, maxLength, r) ==
  IF r = FetchRejected THEN <<"Error: ", "fetch failed">>
  ELSE IF ~r.ok THEN <<"Error: HTTP ", r.status>>
  ELSE truncate(r.text, maxLengthOf(maxLength))

fetchUrlTool(url, maxLength, r) ==
  IF r = FetchRejected THEN <<"Error fetching URL: ", "fetch failed">>
  ELSE IF ~r.ok THEN <<"Error fetching URL: HTTP ", r.status>>
  ELSE truncate(r.text, maxLengthOf(maxLength))

FetchCall(name, maxLength) ==
  [name |-> name, url |-> "https://example.org/doc", maxLength |-> maxLength]

\* a call of one of the two tools, and a response whose body has at most
\* MaxBodyLen characters or about DefaultMaxLength, or that is no success
InitFetch ==
  /\ EngineInit
  /\ \E name \in {"web_fetch", "fetch_url"} :
       /\ variant = (IF name = "web_fetch" THEN "claude" ELSE "skills")
       /\ \E maxLength \in Optional(0..MaxLength) :
            toolCall = FetchCall(name, maxLength)
  /\ \/ httpResponse = FetchRejected
     \/ httpResponse = Response(FALSE, "404 Not Found", <<>>)
     \/ \E n \in (0..MaxBodyLen)
                 \cup ((DefaultMaxLength - 1)..(DefaultMaxLength + 1)) :
          httpResponse = Response(TRUE, "200 OK", Body(n))
  /\ file = File(FALSE, <<>>)
  /\ toolOutput = NotRun

WebFetch ==
  /\ toolCall.name = "web_fetch"
  /\ ~toolOutput.ran
  /\ toolOutput' = Ran(webFetchTool(toolCall.url, toolCall.maxLength, httpResponse))
  /\ UNCHANGED <<toolCall, file, httpResponse>>
  /\ UNCHANGED engineVars
  /\ UNCHANGED loaderVars

FetchUrl ==
  /\ toolCall.name = "fetch_url"
  /\ ~toolOutput.ran
  /\ toolOutput' = Ran(fetchUrlTool(toolCall.url, toolCall.maxLength, httpResponse))
  /\ UNCHANGED <<toolCall, file, httpResponse>>
  /\ UNCHANGED engineVars
  /\ UNCHANGED loaderVars

NextFetch ==
  \/ WebFetch
  \/ FetchUrl

SpecFetch == InitFetch /\ [][NextFetch]_vars

Fetched ==
  /\ toolCall.name \in {"web_fetch", "fetch_url"}
  /\ toolOutput.ran
  /\ httpResponse.ok

AnsweredLaterTurn(t) ==
  LET tr == transcript[t]
  IN  /\ turn[t] >= 2
      /\ Len(tr) > 0
      /\ Last(tr).type = "ai"
      /\ pc[t] # AfterModelError
      /\ TurnStart(tr) > 1

\* C28: an invoke on a thread identifier that has a checkpointed transcript
\* appends its Human message to that transcript, and an invoke on a fresh
\* thread identifier starts the transcript with its Human message alone; a
\* model invocation of a later turn is made on the whole transcript, from the
\* first turn's Human message on, and the routing is taken on that
\* transcript with the response added.
C28_SecondTurnSeesFirst ==
  /\ [][\A t \in Threads :
          turn'[t] # turn[t] =>
            /\ transcript'[t] = transcript[t] \o <<Query(t)>>
            /\ turn[t] = 0 => transcript'[t] = <<Query(t)>>]_vars
  /\ [](\A t \in Threads :
          AnsweredLaterTurn(t) =>
            LET tr == transcript[t]
            IN  /\ modelInput[t] = SubSeq(tr, 1, Len(tr) - 1)
                /\ modelInput[t][1] = HumanMessage(<<"query", t, "1">>)
                /\ route[t] = shouldContinue(tr))

\* the second turn of a thread has been answered on top of a first turn of
\* at least two messages
C28_Witness ==
  \E t \in Threads :
    /\ AnsweredLaterTurn(t)
    /\ Len(modelInput[t]) >= 3
    /\ Last(modelInput[t]) = HumanMessage(<<"query", t, "2">>)


\* ------------------------------------------- claims on the header's removal
\* the file as readRaw returns it
ContentOf(i) == join(skillDirs[i].lines, <<"\n">>)

\* C29: the instructions of a descriptor are the text of the file after the
\* block that the header match recognised (from the opening `---` to the
\* closing `---`), stripped, and nothing of that block, also when the closing
\* `---` ends the file or has more characters after it on its line.
C29_HeaderRemoved ==
  \A i \in Passed :
    HoldsFile(i) =>
      \A n \in DescriptorsOf(i) :
        LET content == ContentOf(i)
            closing == Min(FrontmatterEnds(content)) + 1
        IN  skills[n].instructions =
              Stripped(SubSeq(content, closing + 1, Len(content)))

\* the values that stand on a header line after the text `key`, stripped
ValuesAfter(hl, key) ==
  UNION {{Stripped(SubSeq(hl[k], p + 1, Len(hl[k]))) :
            p \in {q \in 1..Len(hl[k]) : hl[k][q] = key}} : k \in 1..Len(hl)}

\* C30: every descriptor has a name and a description that are not empty,
\* each being the stripped text that follows its key on the key's own line;
\* a file whose key has nothing after it on its line gives no descriptor.
C30_ValuesOnTheKeyLine ==
  \A i \in Passed :
    HoldsFile(i) =>
      \A n \in DescriptorsOf(i) :
        LET hl == LooseHeaderLines(skillDirs[i].lines)
        IN  /\ skills[n].name # <<>>
            /\ skills[n].description # <<>>
            /\ skills[n].name \in ValuesAfter(hl, "name:")
            /\ skills[n].description \in ValuesAfter(hl, "description:")

====
